---- MODULE Spec2Model ----
(***************************************************************************)
(* Model of xk_bot.py: an aiogram 3 bot with an anti-spam middleware, a    *)
(* greeting handler (/start), and a password protected /clearcache flow.   *)
(*                                                                         *)
(* Time is in seconds.  One action handles one inbound message from the    *)
(* moment the dispatcher routes it to the moment its handler returns       *)
(* (messages are handled one after the other in Spec).                     *)
(*                                                                         *)
(* Python's None is "<None>" for texts and passwords and NoTime (-1) for   *)
(* blocked_until.  A user without an entry in the dict user_data is a user *)
(* outside DOMAIN user_data.                                               *)
(***************************************************************************)
EXTENDS Integers, Sequences, FiniteSets, Bags, TLC

VARIABLES now, user_data, fsm, CLEAR_CACHE_PASSWORD, last, blockedTill, clearedSinceBlock, recorded, pending, failed

vars == <<now, user_data, fsm, CLEAR_CACHE_PASSWORD, last, blockedTill, clearedSinceBlock, recorded, pending, failed>>

\* ---------------------------------------------------------------- bounds
\* the last arrival instant, in seconds
MaxTime == 210

MaxGreetings == 7

MaxGreetingsOthers == 0

\* the last arrival instant of SpecConc, in seconds
MaxTimeConc == 30

\* the number of handlers suspended at the same time in SpecConc
MaxPending == 2

\* the number of greetings SpecConc records for the first user
MaxGreetingsConc == 6

\* ------------------------------------------------------------- constants
MAX_REQUESTS_PER_MINUTE == 5

WARNING_THRESHOLD == 4

BLOCK_DURATION_MINUTES == 3

SecondsPerMinute == 60

\* timedelta(minutes=1) of record_request, in seconds
WindowSeconds == 1 * SecondsPerMinute

\* timedelta(minutes=BLOCK_DURATION_MINUTES), in seconds
BlockSeconds == BLOCK_DURATION_MINUTES * SecondsPerMinute

None == "<None>"

NoTime == 0 - 1

Users == {1, 2}

\* the seconds between one arrival instant and the next: the instants are
\* 0, 30, 70, 120, 180, 210, 250, 300, 360, ... so that a timestamp is met
\* again when it is 30, 40, 50, exactly 60 and more than 60 seconds old, and
\* every blocked_until is itself an instant
GapAfter(t) ==
  LET r == t % BlockSeconds
  IN IF r = 0 THEN 30 ELSE IF r = 30 THEN 40 ELSE IF r = 70 THEN 50 ELSE 60

\* message.text of an inbound message; None is a message without text
\* (photo, sticker, ...)
Texts == {"/start", "/clearcache", "secret", "wrong", None}

\* os.getenv("CLEAR_CACHE_PASSWORD"): unset, or set to "secret"
PasswordSettings == {None, "secret"}

Idle == "Idle"

waiting_for_password == "waiting_for_password"

\* user_data.get(user_id, {"requests": [], "blocked_until": None})
DefaultData == [requests |-> <<>>, blocked_until |-> NoTime]

GetData(ud, u) == IF u \in DOMAIN ud THEN ud[u] ELSE DefaultData

\* a store whose entries all share the dict that is written
Put_EveryUser(ud, u, d) == [x \in Users |-> d]

\* user_data[user_id] = data
Put(ud, u, d) == [x \in (DOMAIN ud) \cup {u} |-> IF x = u THEN d ELSE ud[x]]

\* a lazy unblock that lifts the block one instant early
IsBlockedStore_ExpiresAtEqual(ud, u, t) ==
  IF u \in DOMAIN ud /\ ud[u].blocked_until # NoTime /\ t >= ud[u].blocked_until
  THEN [ud EXCEPT ![u] = [requests |-> <<>>, blocked_until |-> NoTime]]
  ELSE ud

\* a lazy unblock that forgets to reset the history
IsBlockedStore_KeepsHistory(ud, u, t) ==
  IF u \in DOMAIN ud /\ ud[u].blocked_until # NoTime /\ t > ud[u].blocked_until
  THEN [ud EXCEPT ![u].blocked_until = NoTime]
  ELSE ud

\* a lookup that also resets the history of a user who is not blocked
IsBlockedStore_ResetsUnblocked(ud, u, t) ==
  IF u \in DOMAIN ud /\ (ud[u].blocked_until = NoTime \/ t > ud[u].blocked_until)
  THEN [ud EXCEPT ![u] = [requests |-> <<>>, blocked_until |-> NoTime]]
  ELSE ud

\* a lookup that stores the default entry of a user who has none
\* (setdefault instead of get)
IsBlockedStore_CreatesEntry(ud, u, t) ==
  IF u \in DOMAIN ud
  THEN IF ud[u].blocked_until # NoTime /\ t > ud[u].blocked_until
       THEN [ud EXCEPT ![u] = [requests |-> <<>>, blocked_until |-> NoTime]]
       ELSE ud
  ELSE [x \in (DOMAIN ud) \cup {u} |->
          IF x = u THEN [requests |-> <<>>, blocked_until |-> NoTime] ELSE ud[x]]

\* is_blocked, lines 62-64: the lazy unblock.  data is the dict stored in
\* user_data when the user has an entry, so the mutation is kept; for a
\* user without an entry data is a temporary and the (never taken) branch
\* would be lost.
IsBlockedStore(ud, u, t) ==
  IF u \in DOMAIN ud /\ ud[u].blocked_until # NoTime /\ t > ud[u].blocked_until
  THEN [ud EXCEPT ![u] = [requests |-> <<>>, blocked_until |-> NoTime]]
  ELSE ud

\* a gate that never reports a block
is_blocked_Never(ud, u, t) == FALSE

\* is_blocked, line 66: the first component of the returned pair
is_blocked(ud, u, t) == GetData(IsBlockedStore(ud, u, t), u).blocked_until # NoTime

\* a window that keeps a timestamp exactly one minute old
InWindow_Inclusive(t, at) == t >= at - WindowSeconds

\* record_request, line 73: the entries kept by the prune
InWindow(t, at) == t > at - WindowSeconds

\* record_request: prune to the trailing minute, append now, store
record_request(ud, u, t) ==
  LET data == GetData(ud, u)
      kept == SelectSeq(data.requests, LAMBDA x : InWindow(x, t))
  IN Put(ud, u, [data EXCEPT !.requests = Append(kept, t)])

\* a warning without the upper limit
WarnCond_NoUpper(n) == n > WARNING_THRESHOLD

\* a warning for the count that blocks too
WarnCond_Wider(n) ==
  n > WARNING_THRESHOLD /\ n <= MAX_REQUESTS_PER_MINUTE + 1

\* start, line 84
WarnCond(n) == n > WARNING_THRESHOLD /\ n <= MAX_REQUESTS_PER_MINUTE

\* a block that starts one request late
BlockCond_Late(n) == n > MAX_REQUESTS_PER_MINUTE + 1

\* start, line 87
BlockCond(n) == n > MAX_REQUESTS_PER_MINUTE

\* start: the store after the handler, the count it read, its replies
start(ud, u, t) ==
  LET ud1 == record_request(ud, u, t)
      request_count == Len(ud1[u].requests)
      w == IF WarnCond(request_count) THEN <<"warning">> ELSE <<>>
  IN IF BlockCond(request_count)
     THEN [ud |-> [ud1 EXCEPT ![u].blocked_until = t + BlockSeconds],
           count |-> request_count, replies |-> w \o <<"block">>]
     ELSE [ud |-> ud1, count |-> request_count, replies |-> w \o <<"promo">>]

\* process_clear_password, line 126
PasswordMatches(text, pw) == text = pw

\* a clear that resets the histories and keeps the entries and their blocks
process_clear_password_KeepsBlocks(ud, text, pw) ==
  IF PasswordMatches(text, pw)
  THEN [ud |-> [x \in DOMAIN ud |-> [ud[x] EXCEPT !.requests = << >>]],
        replies |-> <<"success">>, cleared |-> TRUE]
  ELSE [ud |-> ud, replies |-> <<"failure">>, cleared |-> FALSE]

\* process_clear_password, lines 126-131: the store after the check, the
\* reply, and whether the store was replaced by an empty one
process_clear_password(ud, text, pw) ==
  IF PasswordMatches(text, pw)
  THEN [ud |-> << >>, replies |-> <<"success">>, cleared |-> TRUE]
  ELSE [ud |-> ud, replies |-> <<"failure">>, cleared |-> FALSE]

\* cmd_clearcache: the reply and the FSM state it sets
cmd_clearcache == [replies |-> <<"prompt">>, state |-> waiting_for_password]

\* main, lines 141-144: the handlers in registration order; the first one
\* whose filter accepts the message handles it.  CommandStart and Command
\* carry no state filter, so they accept in every FSM state.
Route(text, st) ==
  IF text = "/start" THEN "start"
  ELSE IF text = "/clearcache" THEN "cmd_clearcache"
  ELSE IF st = waiting_for_password THEN "process_clear_password"
  ELSE "UNHANDLED"

NullLast ==
  [user |-> 0, text |-> None, handler |-> "-", gate |-> "-", count |-> 0,
   replies |-> <<>>, cleared |-> FALSE, preState |-> Idle, preBlocked |-> {},
   priorBlock |-> NoTime, priorCleared |-> FALSE, hadEntry |-> FALSE,
   pre |-> DefaultData]

Blocked(ud) == {u \in DOMAIN ud : ud[u].blocked_until # NoTime}

Init ==
  /\ now = 0
  /\ user_data = << >>
  /\ fsm = [u \in Users |-> Idle]
  /\ CLEAR_CACHE_PASSWORD \in PasswordSettings
  /\ last = NullLast
  /\ blockedTill = [u \in Users |-> NoTime]
  /\ clearedSinceBlock = [u \in Users |-> FALSE]
  /\ recorded = [u \in Users |-> 0]
  /\ pending = EmptyBag
  /\ failed = FALSE

\* the part of `last` every message fills in the same way
Seen(u, text) ==
  [NullLast EXCEPT !.user = u, !.text = text, !.handler = Route(text, fsm[u]),
                   !.preState = fsm[u], !.preBlocked = Blocked(user_data),
                   !.priorBlock = blockedTill[u],
                   !.priorCleared = clearedSinceBlock[u],
                   !.hadEntry = (u \in DOMAIN user_data),
                   !.pre = GetData(user_data, u)]

\* AntiSpamMiddleware.__call__ returning at line 54: the message is dropped
Dropped(u, text) ==
  /\ user_data' = IsBlockedStore(user_data, u, now)
  /\ last' = [Seen(u, text) EXCEPT !.gate = "drop"]
  /\ UNCHANGED <<fsm, blockedTill, clearedSinceBlock, recorded>>

\* the number of greetings the model records for one user: the first user
\* can be blocked and greet again after the block; the other users send
\* any number of messages but at most MaxGreetingsOthers recorded greetings
Quota(u) == IF u = 1 THEN MaxGreetings ELSE MaxGreetingsOthers

\* the frame of every message
Arrive ==
  UNCHANGED <<now, CLEAR_CACHE_PASSWORD, pending, failed>>

\* a /start message: middleware, then start
StartMsg(u) ==
  /\ Arrive
  /\ Route("/start", fsm[u]) = "start"
  /\ IF is_blocked(user_data, u, now)
     THEN Dropped(u, "/start")
     ELSE LET r == start(IsBlockedStore(user_data, u, now), u, now)
          IN /\ recorded[u] < Quota(u)
             /\ recorded' = [recorded EXCEPT ![u] = @ + 1]
             /\ user_data' = r.ud
             /\ last' = [Seen(u, "/start") EXCEPT !.gate = "pass",
                           !.count = r.count, !.replies = r.replies]
             /\ IF BlockCond(r.count)
                THEN /\ blockedTill' = [blockedTill EXCEPT ![u] = now + BlockSeconds]
                     /\ clearedSinceBlock' = [clearedSinceBlock EXCEPT ![u] = FALSE]
                ELSE UNCHANGED <<blockedTill, clearedSinceBlock>>
             /\ UNCHANGED fsm

\* a /clearcache message: middleware, then cmd_clearcache
ClearcacheMsg(u) ==
  /\ Arrive
  /\ Route("/clearcache", fsm[u]) = "cmd_clearcache"
  /\ IF is_blocked(user_data, u, now)
     THEN Dropped(u, "/clearcache")
     ELSE /\ user_data' = IsBlockedStore(user_data, u, now)
          /\ fsm' = [fsm EXCEPT ![u] = cmd_clearcache.state]
          /\ last' = [Seen(u, "/clearcache") EXCEPT !.gate = "pass",
                        !.replies = cmd_clearcache.replies]
          /\ UNCHANGED <<blockedTill, clearedSinceBlock, recorded>>

\* a message routed to process_clear_password: middleware, then the check
PasswordMsg(u, text) ==
  /\ Arrive
  /\ Route(text, fsm[u]) = "process_clear_password"
  /\ IF is_blocked(user_data, u, now)
     THEN Dropped(u, text)
     ELSE LET r == process_clear_password(IsBlockedStore(user_data, u, now),
                                          text, CLEAR_CACHE_PASSWORD)
          IN /\ user_data' = r.ud
             /\ last' = [Seen(u, text) EXCEPT !.gate = "pass",
                           !.replies = r.replies, !.cleared = r.cleared]
             /\ clearedSinceBlock' =
                  IF r.cleared THEN [v \in Users |-> blockedTill[v] # NoTime]
                  ELSE clearedSinceBlock
          /\ fsm' = [fsm EXCEPT ![u] = Idle]
          /\ UNCHANGED <<blockedTill, recorded>>

\* a message no handler accepts: the middleware of dp.message is an inner
\* middleware, it runs only around a handler, so nothing runs at all
UnhandledMsg(u, text) ==
  /\ Arrive
  /\ Route(text, fsm[u]) = "UNHANDLED"
  /\ last' = [Seen(u, text) EXCEPT !.gate = "skipped"]
  /\ UNCHANGED <<user_data, fsm, blockedTill, clearedSinceBlock, recorded>>

\* time passes between two messages
Tick ==
  /\ now + GapAfter(now) <= MaxTime
  /\ now' = now + GapAfter(now)
  /\ last' = NullLast
  /\ UNCHANGED <<user_data, fsm, CLEAR_CACHE_PASSWORD, blockedTill, clearedSinceBlock, recorded,
                 pending, failed>>

Next ==
  \/ \E u \in Users : StartMsg(u)
  \/ \E u \in Users : ClearcacheMsg(u)
  \/ \E u \in Users, text \in Texts : PasswordMsg(u, text)
  \/ \E u \in Users, text \in Texts : UnhandledMsg(u, text)
  \/ Tick

Spec == Init /\ [][Next]_vars

\* ------------------------------------------------- concurrent handlers
\* dp.start_polling handles every update in a task of its own; a handler
\* runs without interruption up to an await that performs I/O (the sends of
\* message.answer) and the other handlers run while it is suspended there.
\* is_blocked, record_request and the FSM storage do no I/O.  `pending`
\* holds the suspended handlers: their user, the count and the entry they
\* read (request_count and data of start), the replies they have sent.
\* A handler ends with its last send.  A message no handler matches starts
\* no task that touches the state and is left out; `last` keeps the fields
\* the concurrent properties read, blockedTill and clearedSinceBlock stay
\* as they are.

Suspended(u, handler, n, sent, data) ==
  [user |-> u, handler |-> handler, count |-> n, sent |-> sent, data |-> data]

Suspend(h) ==
  /\ BagCardinality(pending) < MaxPending
  /\ pending' = pending (+) SetToBag({h})

\* a resumed start that stores its local data again
start_resumed_WritesBack(ud, h, t) ==
  IF BlockCond(h.count)
  THEN IF h.user \in DOMAIN ud
       THEN [ud |-> [ud EXCEPT ![h.user].blocked_until = t + BlockSeconds],
             replies |-> h.sent \o <<"block">>, failed |-> FALSE]
       ELSE [ud |-> ud, replies |-> h.sent, failed |-> TRUE]
  ELSE [ud |-> Put(ud, h.user, h.data), replies |-> h.sent \o <<"promo">>,
        failed |-> FALSE]

\* start, lines 87-118, after the await of line 85: the block branch
\* writes user_data[user_id]["blocked_until"] (a KeyError when the entry is
\* gone), the other branch sends the promo and writes nothing
start_resumed(ud, h, t) ==
  IF BlockCond(h.count)
  THEN IF h.user \in DOMAIN ud
       THEN [ud |-> [ud EXCEPT ![h.user].blocked_until = t + BlockSeconds],
             replies |-> h.sent \o <<"block">>, failed |-> FALSE]
       ELSE [ud |-> ud, replies |-> h.sent, failed |-> TRUE]
  ELSE [ud |-> ud, replies |-> h.sent \o <<"promo">>, failed |-> FALSE]

\* the latest step of a handler: begun by a message or resumed
Began(u, text, gate, n, replies, cleared) ==
  [NullLast EXCEPT !.user = u, !.text = text, !.handler = Route(text, fsm[u]),
                   !.gate = gate, !.count = n, !.replies = replies,
                   !.cleared = cleared]

Resumed(h, replies) ==
  [NullLast EXCEPT !.user = h.user, !.handler = h.handler, !.gate = "resume",
                   !.count = h.count, !.replies = replies, !.pre = h.data]

\* AntiSpamMiddleware.__call__ returning at line 54
DroppedConc(u, text) ==
  /\ user_data' = IsBlockedStore(user_data, u, now)
  /\ last' = Began(u, text, "drop", 0, << >>, FALSE)
  /\ UNCHANGED <<fsm, recorded, pending>>

\* the recorded greetings of SpecConc: the first user greets up to the
\* block while handlers are suspended, the other users send the commands
\* and the passwords
QuotaConc(u) == IF u = 1 THEN MaxGreetingsConc ELSE 0

\* the frame of every step of a handler
Step ==
  UNCHANGED <<now, CLEAR_CACHE_PASSWORD, blockedTill, clearedSinceBlock>>

\* a /start message up to the first await of start
BeginStart(u) ==
  /\ Step /\ UNCHANGED failed
  /\ Route("/start", fsm[u]) = "start"
  /\ IF is_blocked(user_data, u, now)
     THEN DroppedConc(u, "/start")
     ELSE LET ud0 == IsBlockedStore(user_data, u, now)
              ud1 == record_request(ud0, u, now)
              n == Len(ud1[u].requests)
              r == start(ud0, u, now)
          IN /\ recorded[u] < QuotaConc(u)
             /\ recorded' = [recorded EXCEPT ![u] = @ + 1]
             /\ UNCHANGED fsm
             /\ IF WarnCond(n)
                THEN /\ Suspend(Suspended(u, "start", n, <<"warning">>, ud1[u]))
                     /\ user_data' = ud1
                     /\ last' = Began(u, "/start", "suspended", n, <<"warning">>, FALSE)
                ELSE /\ user_data' = r.ud
                     /\ last' = Began(u, "/start", "pass", r.count, r.replies, FALSE)
                     /\ UNCHANGED pending

\* start after the await of line 85
ResumeStart(h) ==
  /\ Step
  /\ h \in BagToSet(pending) /\ h.handler = "start"
  /\ pending' = pending (-) SetToBag({h})
  /\ LET r == start_resumed(user_data, h, now)
     IN /\ user_data' = r.ud
        /\ failed' = (failed \/ r.failed)
        /\ last' = Resumed(h, r.replies)
  /\ UNCHANGED <<fsm, recorded>>

\* a /clearcache message up to the await of line 122
BeginClearcache(u) ==
  /\ Step /\ UNCHANGED failed
  /\ Route("/clearcache", fsm[u]) = "cmd_clearcache"
  /\ IF is_blocked(user_data, u, now)
     THEN DroppedConc(u, "/clearcache")
     ELSE /\ Suspend(Suspended(u, "cmd_clearcache", 0, cmd_clearcache.replies,
                               DefaultData))
          /\ user_data' = IsBlockedStore(user_data, u, now)
          /\ last' = Began(u, "/clearcache", "suspended", 0,
                           cmd_clearcache.replies, FALSE)
          /\ UNCHANGED <<fsm, recorded>>

\* cmd_clearcache, line 123, after the await of line 122
ResumeClearcache(h) ==
  /\ Step /\ UNCHANGED failed
  /\ h \in BagToSet(pending) /\ h.handler = "cmd_clearcache"
  /\ pending' = pending (-) SetToBag({h})
  /\ fsm' = [fsm EXCEPT ![h.user] = cmd_clearcache.state]
  /\ last' = Resumed(h, h.sent)
  /\ UNCHANGED <<user_data, recorded>>

\* a message routed to process_clear_password up to the await of line 129
\* or 131
BeginPassword(u, text) ==
  /\ Step /\ UNCHANGED failed
  /\ Route(text, fsm[u]) = "process_clear_password"
  /\ IF is_blocked(user_data, u, now)
     THEN DroppedConc(u, text)
     ELSE LET r == process_clear_password(IsBlockedStore(user_data, u, now),
                                          text, CLEAR_CACHE_PASSWORD)
          IN /\ Suspend(Suspended(u, "process_clear_password", 0, r.replies,
                                  DefaultData))
             /\ user_data' = r.ud
             /\ last' = Began(u, text, "suspended", 0, r.replies, r.cleared)
             /\ UNCHANGED <<fsm, recorded>>

\* process_clear_password, line 133, after the await of line 129 or 131
ResumePassword(h) ==
  /\ Step /\ UNCHANGED failed
  /\ h \in BagToSet(pending) /\ h.handler = "process_clear_password"
  /\ pending' = pending (-) SetToBag({h})
  /\ fsm' = [fsm EXCEPT ![h.user] = Idle]
  /\ last' = Resumed(h, h.sent)
  /\ UNCHANGED <<user_data, recorded>>

\* time passes while handlers are suspended
TickConc ==
  /\ now + GapAfter(now) <= MaxTimeConc
  /\ Tick

NextConc ==
  \/ \E u \in Users : BeginStart(u)
  \/ \E h \in BagToSet(pending) : ResumeStart(h)
  \/ \E u \in Users : BeginClearcache(u)
  \/ \E h \in BagToSet(pending) : ResumeClearcache(h)
  \/ \E u \in Users, text \in Texts : BeginPassword(u, text)
  \/ \E h \in BagToSet(pending) : ResumePassword(h)
  \/ TickConc

SpecConc == Init /\ [][NextConc]_vars

\* ---------------------------------------------------------------- claims

\* the message of the latest step was handed to no handler or dropped by
\* the middleware: no handler ran, no reply was sent
SilentlyDropped == last.gate # "pass" /\ last.replies = << >>

\* the sender's entry after the latest step
SenderData == GetData(user_data, last.user)

\* C1, as stated: a greeting counted as number MAX+1 blocks the user, and
\* every message of a user that arrives up to the expiry of a block imposed
\* on that user is silently dropped.  Stated for the deployments that
\* configure a password.
C1_Original ==
  CLEAR_CACHE_PASSWORD # None =>
    /\ (last.handler = "start" /\ last.gate = "pass"
          /\ last.count = MAX_REQUESTS_PER_MINUTE + 1)
        => SenderData.blocked_until = now + BLOCK_DURATION_MINUTES * 60
    /\ (last.handler # "-" /\ last.priorBlock # NoTime /\ now <= last.priorBlock)
        => SilentlyDropped

\* C1, amended: a greeting counted as number MAX+1 blocks the user, and
\* every message of that user that arrives up to the expiry of the block is
\* silently dropped, unless a successful password check has cleared the
\* store since the block was imposed.
C1_BlockedThenDropped ==
  /\ (last.handler = "start" /\ last.gate = "pass"
        /\ last.count = MAX_REQUESTS_PER_MINUTE + 1)
      => SenderData.blocked_until = now + BLOCK_DURATION_MINUTES * 60
  /\ (last.handler # "-" /\ last.priorBlock # NoTime /\ now <= last.priorBlock
        /\ ~last.priorCleared)
      => (SilentlyDropped /\ SenderData = last.pre)

\* a blocked user's privileged command arrives at the very instant the
\* block expires and is dropped
C1_Witness ==
  /\ last.text = "/clearcache" /\ last.gate = "drop"
  /\ last.priorBlock = now /\ ~last.priorCleared

\* C2: a greeting that passes the gate with count N is answered by the
\* promo alone when N <= 4, by the warning and then the promo when N = 5,
\* and by the block notice alone when N > 5, in which case blocked_until
\* becomes now + 3 minutes; otherwise the greeting sets no block.
C2_OutcomeByCount ==
  (last.handler = "start" /\ last.gate = "pass") =>
    /\ last.count <= 4 => last.replies = <<"promo">>
    /\ last.count = 5 => last.replies = <<"warning", "promo">>
    /\ last.count > 5 => /\ last.replies = <<"block">>
                         /\ SenderData.blocked_until = now + 180
    /\ last.count <= 5 => SenderData.blocked_until = NoTime

\* the sixth greeting of a minute: block notice, no promo
C2_Witness ==
  /\ last.handler = "start" /\ last.gate = "pass" /\ last.count = 6
  /\ last.replies = <<"block">>

\* what C3 says of a message whose sender holds a stored block: up to the
\* expiry it is dropped and changes nothing; after it, if `all` or if a
\* handler accepts it, it passes, the block and the old history are gone,
\* and a greeting is counted as number 1
AfterBlock(all) ==
  (last.handler # "-" /\ last.pre.blocked_until # NoTime) =>
    IF now > last.pre.blocked_until
    THEN IF ~all /\ last.handler = "UNHANDLED"
         THEN SilentlyDropped /\ SenderData = last.pre
         ELSE /\ last.gate = "pass"
              /\ SenderData.blocked_until = NoTime
              /\ \A i \in 1..Len(SenderData.requests) : SenderData.requests[i] = now
              /\ last.handler = "start" =>
                   /\ last.count = 1 /\ last.replies = <<"promo">>
                   /\ SenderData.requests = <<now>>
    ELSE SilentlyDropped /\ SenderData = last.pre

\* C3, as stated: a message at now = blocked_until is dropped, and the
\* first message at now > blocked_until clears the block and the history,
\* so that a greeting is counted as request number 1.
C3_Original == AfterBlock(TRUE)

\* C3, amended: a message at now = blocked_until is dropped, and the first
\* message at now > blocked_until that a handler accepts clears the block
\* and the history, so that a greeting is counted as request number 1; a
\* message that no handler accepts does not reach the middleware and leaves
\* the expired block and the history in the store.
C3_LiftsStrictlyAfter == AfterBlock(FALSE)

\* the first greeting after the expiry is counted as number 1
C3_Witness ==
  /\ last.handler = "start" /\ last.pre.blocked_until # NoTime
  /\ now > last.pre.blocked_until /\ last.count = 1
  /\ Len(last.pre.requests) = 6

\* the number of timestamps of h less than a minute old at time t
Recent(h, t) == Cardinality({i \in 1..Len(h) : t - h[i] < 60})

\* C4: the count of a recorded greeting is 1 plus the number of the
\* sender's stored timestamps less than 60 seconds old; the stored history
\* then has that length, holds nothing older than 60 seconds and is in
\* non-decreasing order.
C4_SlidingWindow ==
  (last.handler = "start" /\ last.gate = "pass") =>
    LET h == SenderData.requests
    IN /\ last.count = 1 + Recent(last.pre.requests, now)
       /\ Len(h) = last.count
       /\ \A i \in 1..Len(h) : now - h[i] <= 60
       /\ \A i \in 1..Len(h), j \in 1..Len(h) : i <= j => h[i] <= h[j]

\* greetings at 0, 30 and 70 seconds: the third one gets count 2
C4_Witness ==
  /\ last.handler = "start" /\ last.gate = "pass" /\ now = 70
  /\ last.pre.requests = <<0, 30>> /\ last.count = 2


\* a handler accepted the message of the latest step
Accepted == last.handler \notin {"-", "UNHANDLED"}

\* C5: a successful password check leaves the store without any entry, so
\* no user is blocked; a user whose block was cleared that way is processed
\* again, also before the old expiry; and the greeting of a user without an
\* entry is counted as request number 1 and answered by the promo alone.
C5_ClearResetsEveryone ==
  /\ last.cleared => (DOMAIN user_data = {} /\ Blocked(user_data) = {})
  /\ (Accepted /\ last.priorCleared) => last.gate = "pass"
  /\ (last.handler = "start" /\ ~last.hadEntry) =>
       /\ last.gate = "pass" /\ last.count = 1
       /\ last.replies = <<"promo">>

\* the configured password sent by a user while another user is blocked
C5_Witness ==
  /\ last.cleared /\ CLEAR_CACHE_PASSWORD = "secret" /\ last.text = "secret"
  /\ last.preState = waiting_for_password
  /\ last.preBlocked # {} /\ last.user \notin last.preBlocked

\* C6: every message that passes the gate while the sender's session is
\* waiting_for_password leaves the session Idle.
C6_AnyMessageBackToIdle ==
  (last.preState = waiting_for_password /\ last.gate = "pass") =>
    fsm[last.user] = Idle

\* C7: a message that passes the gate while the sender's session is
\* waiting_for_password is handled by the password check only: its reply is
\* success or failure, nothing is counted, no prompt is sent again.
C7_StateBeforeContent ==
  (last.preState = waiting_for_password /\ last.gate = "pass") =>
    /\ last.handler = "process_clear_password"
    /\ last.replies \in {<<"success">>, <<"failure">>}
    /\ last.count = 0

\* C8: without a configured password the privileged command does nothing:
\* no prompt, every session stays Idle, nothing is cleared.
C8_DisabledWithoutPassword ==
  CLEAR_CACHE_PASSWORD = None =>
    /\ \A u \in Users : fsm[u] = Idle
    /\ last.replies # <<"prompt">>
    /\ ~last.cleared

\* C9: the store is cleared only by a message handled in
\* waiting_for_password whose text is the configured password; without a
\* configured password nothing ever clears it.
C9_OnlyThePasswordClears ==
  last.cleared =>
    /\ last.preState = waiting_for_password /\ last.gate = "pass"
    /\ CLEAR_CACHE_PASSWORD # None
    /\ last.text = CLEAR_CACHE_PASSWORD

\* C10: a wrong password handled in waiting_for_password is answered by
\* the failure reply, leaves the whole store as it was and the sender Idle;
\* the sender's next message is not checked as a password unless it is
\* preceded by the privileged command.
C10_WrongPasswordChangesNothing ==
  [][/\ (last'.handler = "process_clear_password" /\ last'.gate = "pass"
          /\ last'.text # CLEAR_CACHE_PASSWORD)
        => /\ last'.replies = <<"failure">>
           /\ user_data' = user_data
           /\ fsm'[last'.user] = Idle
     /\ (last.replies = <<"failure">> /\ last'.user = last.user)
        => last'.handler # "process_clear_password"]_vars

\* the sender of the latest message held a block that had not expired
StillBlocked ==
  /\ last.handler # "-" /\ last.pre.blocked_until # NoTime
  /\ now <= last.pre.blocked_until

\* C11: a message of a user whose block has not expired gets no reply, runs
\* no handler, clears nothing, and leaves the sender's session exactly as
\* it was: no prompt and no entry into waiting_for_password for a
\* privileged command, no password check and no return to Idle for a
\* message sent during a pending password flow.
C11_GateBeforeDispatch ==
  StillBlocked =>
    /\ last.gate # "pass" /\ last.replies = << >> /\ last.count = 0
    /\ ~last.cleared
    /\ fsm[last.user] = last.preState

\* a blocked user whose session awaits the password sends the configured
\* password and is dropped
C11_Witness ==
  /\ StillBlocked /\ last.gate = "drop"
  /\ last.preState = waiting_for_password
  /\ CLEAR_CACHE_PASSWORD = "secret" /\ last.text = "secret"
  /\ fsm[last.user] = waiting_for_password

StoreLeftToGate(l) ==
  \/ l.gate \in {"drop", "skipped"}
  \/ l.gate = "pass" /\ l.handler = "cmd_clearcache"
  \/ l.gate = "pass" /\ l.handler = "process_clear_password" /\ ~l.cleared

\* C15: the block check creates no entry for a user without one, leaves
\* the entry of a user who is not blocked or whose block has not expired as
\* it is, and only when now > blocked_until resets the block and the
\* history, of that user alone.
C15_GateOnlyUnblocks ==
  [][(last'.handler # "-" /\ StoreLeftToGate(last')) =>
       LET u == last'.user
       IN IF /\ last'.gate # "skipped"
             /\ u \in DOMAIN user_data
             /\ user_data[u].blocked_until # NoTime
             /\ now > user_data[u].blocked_until
          THEN user_data' = [user_data EXCEPT
                               ![u] = [requests |-> << >>, blocked_until |-> NoTime]]
          ELSE user_data' = user_data]_vars

\* a privileged command after the expiry: the lookup has reset the entry
C15_Witness ==
  /\ last.handler = "cmd_clearcache" /\ last.gate = "pass"
  /\ last.pre.blocked_until # NoTime /\ now > last.pre.blocked_until
  /\ SenderData = [requests |-> << >>, blocked_until |-> NoTime]
  /\ last.user \in DOMAIN user_data

\* C17: a stored history never holds more than MAX+1 timestamps, and a
\* user whose blocked_until is set holds exactly MAX+1.
C17_HistoryBounded ==
  \A u \in DOMAIN user_data :
    /\ Len(user_data[u].requests) <= MAX_REQUESTS_PER_MINUTE + 1
    /\ user_data[u].blocked_until # NoTime =>
         Len(user_data[u].requests) = MAX_REQUESTS_PER_MINUTE + 1

\* a greeting of a blocked user is dropped and not recorded
C17_Witness ==
  /\ last.handler = "start" /\ last.gate = "drop"
  /\ SenderData.blocked_until # NoTime
  /\ Len(SenderData.requests) = 6

\* C18: a privileged command or a password attempt adds no timestamp, sets
\* no block, sends no warning or block notice and creates no entry; a user
\* of whom no greeting was recorded has no entry and was never blocked.
C18_OnlyGreetingsCount ==
  /\ last.handler \in {"cmd_clearcache", "process_clear_password"} =>
       /\ ~last.hadEntry => last.user \notin DOMAIN user_data
       /\ Len(SenderData.requests) <= Len(last.pre.requests)
       /\ SenderData.blocked_until \in {NoTime, last.pre.blocked_until}
       /\ last.count = 0
       /\ \A i \in 1..Len(last.replies) : last.replies[i] \notin {"warning", "block"}
  /\ \A u \in Users :
       recorded[u] = 0 => (u \notin DOMAIN user_data /\ blockedTill[u] = NoTime)

\* a wrong password of a user who never greeted
C18_Witness ==
  /\ last.handler = "process_clear_password" /\ last.replies = <<"failure">>
  /\ recorded[last.user] = 0 /\ last.user \notin DOMAIN user_data

\* ------------------------------------------ claims on concurrent handlers

\* the suspended greeting handlers of user u
PendingStarts(u) ==
  {h \in BagToSet(pending) : h.handler = "start" /\ h.user = u}

\* C12: the greetings of one user take effect one at a time: two
\* greetings never get the same count, a greeting handled while another of
\* the same user waits with count 5 gets count 6 and blocks the user, and a
\* greeting that passed the gate before the block was set sends no promo
\* once the block is set
C12_PerUserSerialized ==
  /\ \A u \in Users : \A h \in PendingStarts(u) :
       /\ CopiesIn(h, pending) = 1
       /\ \A g \in PendingStarts(u) : g # h => g.count # h.count
  /\ ( /\ last.handler = "start" /\ last.gate = "pass"
       /\ \E h \in PendingStarts(last.user) :
            /\ h.count = MAX_REQUESTS_PER_MINUTE
            /\ h.data = [SenderData EXCEPT
                           !.requests = SubSeq(@, 1, Len(@) - 1),
                           !.blocked_until = NoTime] )
     => /\ last.count = MAX_REQUESTS_PER_MINUTE + 1
        /\ SenderData.blocked_until # NoTime
  /\ ( /\ last.handler = "start" /\ last.gate = "resume"
       /\ last.replies = <<"warning", "promo">>
       /\ last.user \in DOMAIN user_data )
     => SenderData.blocked_until = NoTime

Outcomes ==
  {<<"promo">>, <<"warning", "promo">>, <<"block">>, <<"prompt">>,
   <<"success">>, <<"failure">>, << >>}

\* the replies a suspended handler has sent
Partial == {<<"warning">>, <<"prompt">>, <<"success">>, <<"failure">>}

\* C16: no handler fails on a missing entry, whatever runs while it is
\* suspended, and every message ends with one of the defined outcomes
C16_NoMissingState ==
  /\ ~failed
  /\ last.gate \in {"pass", "drop", "resume"} => last.replies \in Outcomes
  /\ last.gate = "suspended" => last.replies \in Partial
  /\ \A h \in BagToSet(pending) :
       /\ h.sent \in Partial
       /\ h.handler = "start" => ~BlockCond(h.count)

\* a greeting handler resumes and ends with the promo although another
\* user's clear removed its entry while it was suspended
C16_Witness ==
  /\ last.gate = "resume" /\ last.handler = "start"
  /\ last.user \notin DOMAIN user_data
  /\ last.replies = <<"warning", "promo">>
  /\ ~failed

====
